---- MODULE Spec2Model ----
(***************************************************************************)
(* The multi-worker accumulation engine of src/src/camera.rs.              *)
(*                                                                         *)
(* One control thread owns the Camera (Camera::render, the coordinator,    *)
(* and Camera::for_each_view, the host's read of the display buffers) and  *)
(* one worker thread per vertical strip runs the loop of Camera::new       *)
(* (recv, lock, View::render, drop, send).  The two zero-capacity channels *)
(* of a strip are rendezvous: a send and its matching recv are one step.   *)
(*                                                                         *)
(* Colours are abstracted to counts: color_buf holds, per pixel, how many  *)
(* samples were added to the accumulator, and every byte of pixel_buf is   *)
(* tagged with the divisor (passes_plus_one) of the write that produced    *)
(* it, 0 for the zero byte the buffer is created with.  The four byte      *)
(* stores of one pixel are one step: they go through the exclusive borrow  *)
(* of the locked buffer and nothing can run between them and observe it.   *)
(***************************************************************************)
EXTENDS Integers, Naturals, Sequences, FiniteSets, TLC

\* ---------------------------------------------------------------- bounds
NumViews == 2
ImageWidth == 3
ImageHeight == 2
MaxPasses == 3
MaxTime == 1

Views == 0 .. (NumViews - 1)
Rows == 0 .. (ImageHeight - 1)
Bytes == 0 .. 3
\* Instants are measured from the call of Camera::render: a deadline that has
\* already passed at the call is negative.
Times == 0 .. MaxTime
Deadlines == (-1) .. MaxTime

Min(a, b) == IF a <= b THEN a ELSE b

\* -------------------------------------------------------- strip geometry
\* let view_x = i * i_width_usize / num_views
StripX(i, w, n) == (i * w) \div n

\* Strips of equal width, the remainder of the division lost.
StripWidth_Floor(i, w, n) == w \div n

\* let view_width = (i + 1) * i_width_usize / num_views - view_x
StripWidth(i, w, n) == (((i + 1) * w) \div n) - StripX(i, w, n)

ViewX(i) == StripX(i, ImageWidth, NumViews)

ViewWidth(i) == StripWidth(i, ImageWidth, NumViews)

Cols(i) == 0 .. (ViewWidth(i) - 1)

VARIABLES
    cpc,              \* control thread: position in render / for_each_view
    ci,               \* control thread: index of the loop it is in
    passes_wanted,    \* Camera.passes_wanted
    all_passes_done,  \* local of Camera::render
    passes_done,      \* this_passes_done received from each strip this tick, -1 before
    pause,            \* the shared AtomicBool
    now,              \* latest instant the control thread is known to have reached
    until,            \* argument of Camera::render
    ticks,            \* history: ticks that ended without an increment, since the last one
    lock,             \* owner of each strip's pixel_buf mutex
    wpc,              \* worker: position in its loop
    w_passes_wanted,  \* worker: the request it is serving, 0 when it waits for one
    render_passes,    \* View.render_passes
    start_row,        \* View.start_row
    passes_plus_one,  \* local of View::render
    y,                \* row of the outer loop of View::render
    x,                \* column of the inner loop of View::render
    rows,             \* rows completed by the View::render call of this request
    color_buf,        \* View.color_buf: samples accumulated per pixel
    pixel_buf,        \* display buffer: per byte, the divisor of its last write
    cam_new,          \* a run of Camera::new on its own (specification SpecNew)
    trace,            \* a run of View::ray_color on its own (SpecTrace)
    probe,            \* a run of Scene::hit on its own (SpecHit)
    hrec,             \* a run of HitRecord::new on its own (SpecHitRecord)
    scat,             \* a run of Material::scatter on its own (SpecScatter)
    lemire            \* a run of Rng::random_u64 / random_f64 on its own (SpecRng)

cvars == <<cpc, ci, passes_wanted, all_passes_done, passes_done, pause, now, until,
          ticks>>
wvars == <<wpc, w_passes_wanted, render_passes, start_row, passes_plus_one, y, x, rows,
           color_buf, pixel_buf>>
camvars == <<cvars, lock, wvars>>
pvars == <<cam_new, trace, probe, hrec, scat, lemire>>
vars == <<camvars, pvars>>

\* The value of a variable whose function is not run in a specification.
Off == [pc |-> "off"]

\* ------------------------------------------------------------ Camera::new
\* The Camera and its workers right after construction.
CameraInit ==
    /\ cpc = "idle"
    /\ ci = 0
    /\ passes_wanted = 0
    /\ all_passes_done = TRUE
    /\ passes_done = [i \in Views |-> -1]
    /\ pause = FALSE
    /\ now = 0
    /\ until = 0
    /\ ticks = 0
    /\ lock = [i \in Views |-> "free"]
    /\ wpc = [i \in Views |-> "recv"]
    /\ w_passes_wanted = [i \in Views |-> 0]
    /\ render_passes = [i \in Views |-> 0]
    /\ start_row = [i \in Views |-> 0]
    /\ passes_plus_one = [i \in Views |-> 0]
    /\ y = [i \in Views |-> 0]
    /\ x = [i \in Views |-> 0]
    /\ rows = [i \in Views |-> 0]
    /\ color_buf = [i \in Views |-> [r \in Rows |-> [c \in Cols(i) |-> 0]]]
    /\ pixel_buf = [i \in Views |-> [r \in Rows |-> [c \in Cols(i) |-> [b \in Bytes |-> 0]]]]

Init ==
    /\ CameraInit
    /\ cam_new = Off
    /\ trace = Off
    /\ probe = Off
    /\ hrec = Off
    /\ scat = Off
    /\ lemire = Off

\* ========================================================= control thread

\* Camera::render is entered with a deadline.
RenderCall(u) ==
    /\ cpc = "idle"
    /\ passes_wanted < MaxPasses
    /\ cpc' = "send"
    /\ ci' = 0
    /\ until' = u
    /\ now' = 0
    /\ UNCHANGED <<passes_wanted, all_passes_done, passes_done, pause, lock, wvars>>
    /\ UNCHANGED ticks
    /\ UNCHANGED pvars

\* passes_wanted_tx.send rendezvous with the worker's passes_wanted_rx.recv.
Request(i) ==
    /\ cpc = "send"
    /\ ci = i
    /\ wpc[i] = "recv"
    /\ w_passes_wanted' = [w_passes_wanted EXCEPT ![i] = passes_wanted]
    /\ wpc' = [wpc EXCEPT ![i] = "lock"]
    /\ IF i + 1 < NumViews
       THEN /\ ci' = i + 1
            /\ cpc' = "send"
       ELSE /\ ci' = 0
            /\ cpc' = "sleep"
    /\ UNCHANGED <<passes_wanted, all_passes_done, passes_done, pause, now, until,
                   lock, render_passes, start_row, passes_plus_one, y, x, rows,
                   color_buf, pixel_buf>>
    /\ UNCHANGED ticks
    /\ UNCHANGED pvars

\* The instants at which the control thread can be running again after it read
\* the clock as t with deadline u.
WakeTimes_NoSleep(t, u) == {t}

WakeTimes(t, u) == IF u > t THEN {s \in Times : s >= u} ELSE {t}

\* Instant::now(), and the sleep up to `until` when it is still ahead.
Sleep ==
    /\ cpc = "sleep"
    /\ \E t \in {s \in Times : s >= now} : now' \in WakeTimes(t, until)
    /\ cpc' = "pause"
    /\ UNCHANGED <<ci, passes_wanted, all_passes_done, passes_done, pause, until, lock, wvars>>
    /\ UNCHANGED ticks
    /\ UNCHANGED pvars

\* self.pause.store(true), then the gather loop's flag is initialised.
SetPause ==
    /\ cpc = "pause"
    /\ pause' = TRUE
    /\ all_passes_done' = TRUE
    /\ cpc' = "gather"
    /\ ci' = 0
    /\ UNCHANGED <<passes_wanted, passes_done, now, until, lock, wvars>>
    /\ UNCHANGED ticks
    /\ UNCHANGED pvars

\* The comparison of the gather loop.
PassesShort_OffByOne(done, wanted) == done <= wanted

PassesShort(done, wanted) == done < wanted

\* Whether the gather loop has another receiver after the one of strip i.
MoreReports_FirstOnly(i) == FALSE

MoreReports(i) == i + 1 < NumViews

\* passes_done_rx.recv rendezvous with the worker's passes_done_tx.send; the
\* worker's loop body ends and it goes back to recv.
Report(i) ==
    /\ cpc = "gather"
    /\ ci = i
    /\ wpc[i] = "send"
    /\ passes_done' = [passes_done EXCEPT ![i] = render_passes[i]]
    /\ all_passes_done' = IF PassesShort(render_passes[i], passes_wanted)
                          THEN FALSE
                          ELSE all_passes_done
    /\ wpc' = [wpc EXCEPT ![i] = "recv"]
    /\ w_passes_wanted' = [w_passes_wanted EXCEPT ![i] = 0]
    /\ rows' = [rows EXCEPT ![i] = 0]
    /\ IF MoreReports(i)
       THEN /\ ci' = i + 1
            /\ cpc' = "gather"
       ELSE /\ ci' = 0
            /\ cpc' = "incr"
    /\ UNCHANGED <<passes_wanted, pause, now, until, lock,
                   render_passes, start_row, passes_plus_one, y, x,
                   color_buf, pixel_buf>>
    /\ UNCHANGED ticks
    /\ UNCHANGED pvars

\* if all_passes_done { self.passes_wanted += 1 }
Increment ==
    /\ cpc = "incr"
    /\ passes_wanted' = IF all_passes_done THEN passes_wanted + 1 ELSE passes_wanted
    /\ cpc' = "unpause"
    /\ UNCHANGED <<ci, all_passes_done, passes_done, pause, now, until, lock, wvars>>
    /\ ticks' = IF all_passes_done THEN 0 ELSE Min(ticks + 1, ImageHeight)
    /\ UNCHANGED pvars

\* self.pause.store(false): the last statement of Camera::render.
ClearPause_Forgotten ==
    /\ cpc = "unpause"
    /\ cpc' = "done"
    /\ UNCHANGED <<ci, passes_wanted, all_passes_done, passes_done, pause, now, until, lock, wvars>>
    /\ UNCHANGED ticks
    /\ UNCHANGED pvars

ClearPause ==
    /\ cpc = "unpause"
    /\ pause' = FALSE
    /\ cpc' = "done"
    /\ UNCHANGED <<ci, passes_wanted, all_passes_done, passes_done, now, until,
                   lock, wvars>>
    /\ UNCHANGED ticks
    /\ UNCHANGED pvars

\* Camera::render returns to the host.
RenderReturn ==
    /\ cpc = "done"
    /\ cpc' = "idle"
    /\ until' = 0
    /\ now' = 0
    /\ all_passes_done' = TRUE
    /\ passes_done' = [i \in Views |-> -1]
    /\ UNCHANGED <<ci, passes_wanted, pause, lock, wvars>>
    /\ UNCHANGED ticks
    /\ UNCHANGED pvars

\* Camera::for_each_view is entered.
ViewCall ==
    /\ cpc = "idle"
    /\ cpc' = "view_lock"
    /\ ci' = 0
    /\ UNCHANGED <<passes_wanted, all_passes_done, passes_done, pause, now, until,
                   lock, wvars>>
    /\ UNCHANGED ticks
    /\ UNCHANGED pvars

\* pixel_buf.lock() of for_each_view: blocks while the worker holds the mutex.
ViewLock(i) ==
    /\ cpc = "view_lock"
    /\ ci = i
    /\ lock[i] = "free"
    /\ lock' = [lock EXCEPT ![i] = "host"]
    /\ cpc' = "view_f"
    /\ UNCHANGED <<ci, passes_wanted, all_passes_done, passes_done, pause, now, until, wvars>>
    /\ UNCHANGED ticks
    /\ UNCHANGED pvars

\* A host that keeps the guard of the strip it has read.
ViewUnlock_KeepLock(i) ==
    /\ cpc = "view_f"
    /\ ci = i
    /\ IF i + 1 < NumViews
       THEN /\ ci' = i + 1
            /\ cpc' = "view_lock"
       ELSE /\ ci' = 0
            /\ cpc' = "idle"
    /\ UNCHANGED <<passes_wanted, all_passes_done, passes_done, pause, now, until,
                   lock, wvars>>
    /\ UNCHANGED ticks
    /\ UNCHANGED pvars

\* f(i, view_x, view_width, &pixel_buf) has read the strip; the guard is dropped
\* at the end of the iteration.
ViewUnlock(i) ==
    /\ cpc = "view_f"
    /\ ci = i
    /\ lock' = [lock EXCEPT ![i] = "free"]
    /\ IF i + 1 < NumViews
       THEN /\ ci' = i + 1
            /\ cpc' = "view_lock"
       ELSE /\ ci' = 0
            /\ cpc' = "idle"
    /\ UNCHANGED <<passes_wanted, all_passes_done, passes_done, pause, now, until,
                   wvars>>
    /\ UNCHANGED ticks
    /\ UNCHANGED pvars

\* ================================================================ workers

\* pixel_buf.lock() of the worker loop.
WLock(i) ==
    /\ wpc[i] = "lock"
    /\ lock[i] = "free"
    /\ lock' = [lock EXCEPT ![i] = "worker"]
    /\ wpc' = [wpc EXCEPT ![i] = "render"]
    /\ UNCHANGED <<cvars, w_passes_wanted, render_passes, start_row, passes_plus_one,
                   y, x, rows, color_buf, pixel_buf>>
    /\ UNCHANGED pvars

\* The early return of View::render.
RenderSkip_Never(rp, pw) == FALSE

\* An early return only for a strip ahead of the request.
RenderSkip_Strict(rp, pw) == rp > pw

RenderSkip(rp, pw) == rp >= pw

\* The first row of the row loop: enumerate().skip(self.start_row).
FirstRow_Zero(sr) == 0

FirstRow(sr) == sr

\* let passes_plus_one = self.render_passes as f64 + 1.0: the divisor of every
\* pixel written by this call.
PassesPlusOne_Stale(rp) == rp

PassesPlusOne(rp) == rp + 1

\* A loop that tests the pause flag at its head instead of after a row.
WEnter_PauseFirst(i) ==
    /\ wpc[i] = "render"
    /\ rows' = [rows EXCEPT ![i] = 0]
    /\ IF RenderSkip(render_passes[i], w_passes_wanted[i]) \/ pause
       THEN /\ wpc' = [wpc EXCEPT ![i] = "drop"]
            /\ UNCHANGED <<passes_plus_one, y, x>>
       ELSE /\ passes_plus_one' = [passes_plus_one EXCEPT ![i] = PassesPlusOne(render_passes[i])]
            /\ y' = [y EXCEPT ![i] = FirstRow(start_row[i])]
            /\ x' = [x EXCEPT ![i] = 0]
            /\ wpc' = [wpc EXCEPT ![i] = "sample"]
    /\ UNCHANGED <<cvars, lock, w_passes_wanted, render_passes, start_row,
                   color_buf, pixel_buf>>
    /\ UNCHANGED pvars

\* View::render is entered: the early return, or the set-up of the row loop.
WEnter(i) ==
    /\ wpc[i] = "render"
    /\ rows' = [rows EXCEPT ![i] = 0]
    /\ IF RenderSkip(render_passes[i], w_passes_wanted[i])
       THEN /\ wpc' = [wpc EXCEPT ![i] = "drop"]
            /\ UNCHANGED <<passes_plus_one, y, x>>
       ELSE /\ passes_plus_one' = [passes_plus_one EXCEPT ![i] = PassesPlusOne(render_passes[i])]
            /\ y' = [y EXCEPT ![i] = FirstRow(start_row[i])]
            /\ x' = [x EXCEPT ![i] = 0]
            /\ wpc' = [wpc EXCEPT ![i] = "sample"]
    /\ UNCHANGED <<cvars, lock, w_passes_wanted, render_passes, start_row,
                   color_buf, pixel_buf>>
    /\ UNCHANGED pvars

\* let ray = self.get_ray(...); *c += Self::ray_color(...): one more sample in
\* the pixel's accumulator.
WSample(i) ==
    /\ wpc[i] = "sample"
    /\ color_buf' = [color_buf EXCEPT ![i][y[i]][x[i]] = @ + 1]
    /\ wpc' = [wpc EXCEPT ![i] = "pixel"]
    /\ UNCHANGED <<cvars, lock, w_passes_wanted, render_passes, start_row,
                   passes_plus_one, y, x, rows, pixel_buf>>
    /\ UNCHANGED pvars

\* Where the inner loop goes after the pixel at column xx of a strip w wide.
InnerNext_PauseMidRow(xx, w, p) ==
    IF xx + 1 < w THEN (IF p THEN "drop" ELSE "sample") ELSE "rowend"

InnerNext(xx, w, p) == IF xx + 1 < w THEN "sample" ELSE "rowend"

\* p[0], p[1], p[2], p[3] = ...: the four bytes of the pixel are stored, the
\* colour bytes from the accumulator divided by passes_plus_one, through the
\* exclusive borrow of the locked buffer; the inner loop moves to the next column.
WPixel(i) ==
    /\ wpc[i] = "pixel"
    /\ pixel_buf' = [pixel_buf EXCEPT ![i][y[i]][x[i]] = [b \in Bytes |-> passes_plus_one[i]]]
    /\ wpc' = [wpc EXCEPT ![i] = InnerNext(x[i], ViewWidth(i), pause)]
    /\ x' = [x EXCEPT ![i] = IF x[i] + 1 < ViewWidth(i) THEN x[i] + 1 ELSE 0]
    /\ UNCHANGED <<cvars, lock, w_passes_wanted, render_passes, start_row,
                   passes_plus_one, y, rows, color_buf>>
    /\ UNCHANGED pvars

\* if self.start_row >= self.height, tested on the cursor just incremented.
PassComplete_OffByOne(sr) == sr > ImageHeight

PassComplete(sr) == sr >= ImageHeight

\* self.start_row += 1, and the end of a pass.
WRowEnd(i) ==
    /\ wpc[i] = "rowend"
    /\ IF PassComplete(start_row[i] + 1)
       THEN /\ render_passes' = [render_passes EXCEPT ![i] = @ + 1]
            /\ start_row' = [start_row EXCEPT ![i] = 0]
       ELSE /\ start_row' = [start_row EXCEPT ![i] = @ + 1]
            /\ UNCHANGED render_passes
    /\ rows' = [rows EXCEPT ![i] = @ + 1]
    /\ wpc' = [wpc EXCEPT ![i] = "pause"]
    /\ UNCHANGED <<cvars, lock, w_passes_wanted, passes_plus_one, y, x,
                   color_buf, pixel_buf>>
    /\ UNCHANGED pvars

\* A row loop that never looks at the pause flag.
WPauseCheck_IgnoreFlag(i) ==
    /\ wpc[i] = "pause"
    /\ IF y[i] + 1 >= ImageHeight
       THEN /\ wpc' = [wpc EXCEPT ![i] = "drop"]
            /\ y' = [y EXCEPT ![i] = 0]
       ELSE /\ wpc' = [wpc EXCEPT ![i] = "sample"]
            /\ y' = [y EXCEPT ![i] = @ + 1]
    /\ UNCHANGED <<cvars, lock, w_passes_wanted, render_passes, start_row,
                   passes_plus_one, x, rows, color_buf, pixel_buf>>
    /\ UNCHANGED pvars

\* if self.pause.load() { break }, else the row iterator's next().
WPauseCheck(i) ==
    /\ wpc[i] = "pause"
    /\ IF pause \/ y[i] + 1 >= ImageHeight
       THEN /\ wpc' = [wpc EXCEPT ![i] = "drop"]
            /\ y' = [y EXCEPT ![i] = 0]
       ELSE /\ wpc' = [wpc EXCEPT ![i] = "sample"]
            /\ y' = [y EXCEPT ![i] = @ + 1]
    /\ UNCHANGED <<cvars, lock, w_passes_wanted, render_passes, start_row,
                   passes_plus_one, x, rows, color_buf, pixel_buf>>
    /\ UNCHANGED pvars

\* A guard that lives to the end of the loop body instead of being dropped.
WDrop_KeepLock(i) ==
    /\ wpc[i] = "drop"
    /\ wpc' = [wpc EXCEPT ![i] = "send"]
    /\ passes_plus_one' = [passes_plus_one EXCEPT ![i] = 0]
    /\ x' = [x EXCEPT ![i] = 0]
    /\ y' = [y EXCEPT ![i] = 0]
    /\ UNCHANGED <<cvars, lock, w_passes_wanted, render_passes, start_row, rows,
                   color_buf, pixel_buf>>
    /\ UNCHANGED pvars

\* View::render has returned; drop(pixel_buf) releases the mutex.
WDrop(i) ==
    /\ wpc[i] = "drop"
    /\ lock' = [lock EXCEPT ![i] = "free"]
    /\ wpc' = [wpc EXCEPT ![i] = "send"]
    /\ passes_plus_one' = [passes_plus_one EXCEPT ![i] = 0]
    /\ x' = [x EXCEPT ![i] = 0]
    /\ y' = [y EXCEPT ![i] = 0]
    /\ UNCHANGED <<cvars, w_passes_wanted, render_passes, start_row, rows,
                   color_buf, pixel_buf>>
    /\ UNCHANGED pvars

\* The steps a worker takes on its own, between its recv and its send.
Worker(i) ==
    \/ WLock(i)
    \/ WEnter(i)
    \/ WSample(i)
    \/ WPixel(i)
    \/ WRowEnd(i)
    \/ WPauseCheck(i)
    \/ WDrop(i)

Next ==
    \/ \E u \in Deadlines : RenderCall(u)
    \/ \E i \in Views : Request(i)
    \/ Sleep
    \/ SetPause
    \/ \E i \in Views : Report(i)
    \/ Increment
    \/ ClearPause
    \/ RenderReturn
    \/ ViewCall
    \/ \E i \in Views : ViewLock(i)
    \/ \E i \in Views : ViewUnlock(i)
    \/ \E i \in Views : Worker(i)

Spec == Init /\ [][Next]_vars

\* ======================================================= fair scheduling
\* The steps of the control thread inside a call of Camera::render or of
\* Camera::for_each_view; when a call is made is the host's choice.
InCall ==
    \/ \E i \in Views : Request(i)
    \/ Sleep
    \/ SetPause
    \/ \E i \in Views : Report(i)
    \/ Increment
    \/ ClearPause
    \/ RenderReturn
    \/ \E i \in Views : ViewLock(i)
    \/ \E i \in Views : ViewUnlock(i)

\* Every thread that can run is eventually run: the control thread inside a
\* call, and each worker thread.
FairSpec == Spec /\ WF_vars(InCall) /\ \A i \in Views : WF_vars(Worker(i))

\* ============================================ a worker thread that dies
\* A worker thread terminates unexpectedly, at one of the statements of its
\* loop: the recv, the lock().expect, the call of View::render (a panic inside
\* the call leaves the same state wherever it happens) or the send().expect.
\* Unwinding drops what the closure owns: its channel ends, its View with the
\* colour buffer and the cursors, the locals of the call in progress, and the
\* guard of the mutex when it holds it, which poisons the mutex. Every lock()
\* of the program is followed by expect(), so the bytes behind a poisoned mutex
\* are never read again: they are forgotten here.
WDie(i) ==
    /\ wpc[i] \in {"recv", "lock", "render", "send"}
    /\ wpc' = [wpc EXCEPT ![i] = "dead"]
    /\ lock' = [lock EXCEPT ![i] = IF @ = "worker" THEN "poisoned" ELSE @]
    /\ w_passes_wanted' = [w_passes_wanted EXCEPT ![i] = 0]
    /\ render_passes' = [render_passes EXCEPT ![i] = 0]
    /\ start_row' = [start_row EXCEPT ![i] = 0]
    /\ passes_plus_one' = [passes_plus_one EXCEPT ![i] = 0]
    /\ y' = [y EXCEPT ![i] = 0]
    /\ x' = [x EXCEPT ![i] = 0]
    /\ rows' = [rows EXCEPT ![i] = 0]
    /\ color_buf' = [color_buf EXCEPT ![i] = [r \in Rows |-> [c \in Cols(i) |-> 0]]]
    /\ pixel_buf' = [pixel_buf EXCEPT ![i] =
                        IF lock[i] = "worker"
                        THEN [r \in Rows |-> [c \in Cols(i) |-> [b \in Bytes |-> 0]]]
                        ELSE @]
    /\ UNCHANGED cvars
    /\ UNCHANGED pvars

\* The control thread is the main thread: its panic ends the process, and the
\* workers that were still running with it.
ProcessExit ==
    /\ cpc' = "panicked"
    /\ wpc' = [j \in Views |-> "dead"]
    /\ w_passes_wanted' = [j \in Views |-> 0]
    /\ render_passes' = [j \in Views |-> 0]
    /\ start_row' = [j \in Views |-> 0]
    /\ passes_plus_one' = [j \in Views |-> 0]
    /\ y' = [j \in Views |-> 0]
    /\ x' = [j \in Views |-> 0]
    /\ rows' = [j \in Views |-> 0]
    /\ color_buf' = [j \in Views |-> [r \in Rows |-> [c \in Cols(j) |-> 0]]]
    /\ UNCHANGED <<ci, passes_wanted, all_passes_done, passes_done, pause, now, until,
                   ticks, lock, pixel_buf>>

\* passes_wanted_tx.send(..) returns Err when the receiver is gone, and
\* .expect("passes_wanted_tx") panics.
SendFails(i) ==
    /\ cpc = "send"
    /\ ci = i
    /\ wpc[i] = "dead"
    /\ ProcessExit
    /\ UNCHANGED pvars

\* A gather loop that skips a receiver whose sender is gone.
RecvFails_Ignored(i) ==
    /\ cpc = "gather"
    /\ ci = i
    /\ wpc[i] = "dead"
    /\ IF MoreReports(i)
       THEN /\ ci' = i + 1
            /\ cpc' = "gather"
       ELSE /\ ci' = 0
            /\ cpc' = "incr"
    /\ UNCHANGED <<passes_wanted, all_passes_done, passes_done, pause, now, until,
                   lock, wvars>>
    /\ UNCHANGED ticks
    /\ UNCHANGED pvars

\* passes_done_rx.recv() returns Err when the sender is gone, and
\* .expect("passes_done_rx") panics.
RecvFails(i) ==
    /\ cpc = "gather"
    /\ ci = i
    /\ wpc[i] = "dead"
    /\ ProcessExit
    /\ UNCHANGED pvars

CrashNext ==
    \/ Next
    \/ \E i \in Views : WDie(i)
    \/ \E i \in Views : SendFails(i)
    \/ \E i \in Views : RecvFails(i)

SpecCrash == Init /\ [][CrashNext]_vars

\* ===================================================== Camera::new alone
\* Inputs of the runs of Camera::new: image widths, worker counts (one more
\* than the largest width, so that a count can exceed every width) and aspect
\* ratios (whole numbers here). MaxSeed stands for u64::MAX, the largest seed.
MaxImageWidth == 5
MaxAspect == 2
MaxSeed == 7

Max(a, b) == IF a >= b THEN a ELSE b

\* i_height_usize = max(1, (image_width / aspect_ratio) as usize)
HeightOf(w, a) == Max(1, w \div a)

\* overflow_checks is the build: on (the default of a debug build) an
\* overflowing + panics, off (the default of a release build) it wraps.
NewInit ==
    /\ CameraInit
    /\ cam_new \in {[pc |-> "assert", image_width |-> w, num_views |-> n,
                     image_height |-> HeightOf(w, a), rng_seed |-> sd,
                     overflow_checks |-> oc, i |-> 0, view_xs |-> <<>>,
                     view_widths |-> <<>>, view_heights |-> <<>>,
                     view_seeds |-> <<>>, spawned |-> 0] :
                        w \in 0 .. MaxImageWidth, n \in 0 .. (MaxImageWidth + 1),
                        a \in 1 .. MaxAspect, sd \in 0 .. MaxSeed, oc \in BOOLEAN}
    /\ trace = Off
    /\ probe = Off
    /\ hrec = Off
    /\ scat = Off
    /\ lemire = Off

\* The two assertions on the worker count.
ViewsAccepted_NoUpper(n, w) == n > 0

ViewsAccepted(n, w) == n > 0 /\ n <= w

\* assert!(num_views > 0); assert!(num_views <= i_width_usize);
NewAssert ==
    /\ cam_new.pc = "assert"
    /\ cam_new' = [cam_new EXCEPT
                      !.pc = IF ViewsAccepted(cam_new.num_views, cam_new.image_width)
                             THEN "loop" ELSE "panicked"]
    /\ UNCHANGED <<camvars, trace, probe, hrec, scat, lemire>>

\* One turn of for i in 0..num_views: the strip's offset and width are pushed
\* and its buffers get the image height; then rng_seed + i as u64 is computed
\* on the constructing thread, which panics when the sum overflows and the
\* build checks overflow, before the strip's thread is spawned; otherwise the
\* thread is spawned with the sum, wrapped, as its seed.
NewStrip ==
    /\ cam_new.pc = "loop"
    /\ cam_new.i < cam_new.num_views
    /\ LET sum == cam_new.rng_seed + cam_new.i
           overflows == sum > MaxSeed
       IN cam_new' = [cam_new EXCEPT
             !.view_xs = Append(@, StripX(cam_new.i, cam_new.image_width,
                                          cam_new.num_views)),
             !.view_widths = Append(@, StripWidth(cam_new.i, cam_new.image_width,
                                                   cam_new.num_views)),
             !.view_heights = Append(@, cam_new.image_height),
             !.pc = IF overflows /\ cam_new.overflow_checks THEN "panicked" ELSE @,
             !.view_seeds = IF overflows /\ cam_new.overflow_checks THEN @
                            ELSE Append(@, sum % (MaxSeed + 1)),
             !.spawned = IF overflows /\ cam_new.overflow_checks THEN @ ELSE @ + 1,
             !.i = IF overflows /\ cam_new.overflow_checks THEN @ ELSE @ + 1]
    /\ UNCHANGED <<camvars, trace, probe, hrec, scat, lemire>>

\* Self { ... }: the Camera is returned.
NewReturn ==
    /\ cam_new.pc = "loop"
    /\ cam_new.i >= cam_new.num_views
    /\ cam_new' = [cam_new EXCEPT !.pc = "returned"]
    /\ UNCHANGED <<camvars, trace, probe, hrec, scat, lemire>>

NewNext == NewAssert \/ NewStrip \/ NewReturn

SpecNew == NewInit /\ [][NewNext]_vars

\* ========================================================= Scene::hit alone
\* The instances are exact: rays from the origin along the x axis, either way
\* (so a = 1), and spheres of radius 1 centred in the z = 0 plane, whose
\* discriminant 1 - cy^2 is 1 (two roots), 0 (tangent) or negative (a miss).
MaxCoord == 2
MaxSpheres == 2

Dot(u, v) == u[1] * v[1] + u[2] * v[2] + u[3] * v[3]

Sub(u, v) == <<u[1] - v[1], u[2] - v[2], u[3] - v[3]>>

Origin == <<0, 0, 0>>

RayDirs == {<<1, 0, 0>>, <<-1, 0, 0>>}

SphereSet == {[center |-> <<cx, cy, 0>>, radius |-> 1] :
                 cx \in (-MaxCoord) .. MaxCoord, cy \in 0 .. 2}

\* Stands for f64::INFINITY: above every root of the instances.
Beyond == MaxCoord + 2

TMins == {0, 1}

TMaxs == {2, 3, Beyond}

\* f64::sqrt on the perfect squares the instances produce.
Sqrt(n) == CHOOSE k \in 0 .. n : k * k = n

None == [some |-> FALSE, t |-> 0]

Some(t) == [some |-> TRUE, t |-> t]

\* Sphere::hit: the smaller root when it lies strictly inside the interval,
\* otherwise the larger one when that does.
SphereHit(sp, pos, dir, ray_tmin, ray_tmax) ==
    LET oc == Sub(sp.center, pos)
        a == Dot(dir, dir)
        h == Dot(dir, oc)
        c == Dot(oc, oc) - sp.radius * sp.radius
        discriminant == h * h - a * c
    IN IF discriminant < 0
       THEN None
       ELSE LET sqrtd == Sqrt(discriminant)
                root1 == (h - sqrtd) \div a
                root2 == (h + sqrtd) \div a
            IN IF root1 <= ray_tmin \/ root1 >= ray_tmax
               THEN IF root2 <= ray_tmin \/ root2 >= ray_tmax
                    THEN None
                    ELSE Some(root2)
               ELSE Some(root1)

Scenes == UNION {[1 .. n -> SphereSet] : n \in 0 .. MaxSpheres}

\* A call scene.hit(r, ray_tmin, ray_tmax):
\* let mut hit_rec = None; let mut closest_so_far = ray_tmax;
HitInit ==
    /\ CameraInit
    /\ cam_new = Off
    /\ trace = Off
    /\ probe \in {[pc |-> "scan", dir |-> d, ray_tmin |-> lo, ray_tmax |-> hi,
                   spheres |-> sc, k |-> 1, closest_so_far |-> hi, hit_rec |-> None] :
                     d \in RayDirs, lo \in TMins, hi \in TMaxs, sc \in Scenes}
    /\ hrec = Off
    /\ scat = Off
    /\ lemire = Off

\* The upper end of the interval handed to each sphere.
SearchMax_Whole(closest_so_far, ray_tmax) == ray_tmax

SearchMax(closest_so_far, ray_tmax) == closest_so_far

\* One turn of for sphere in &self.spheres.
HitSphere ==
    /\ probe.pc = "scan"
    /\ probe.k <= Len(probe.spheres)
    /\ LET rec == SphereHit(probe.spheres[probe.k], Origin, probe.dir, probe.ray_tmin,
                            SearchMax(probe.closest_so_far, probe.ray_tmax))
       IN probe' = [probe EXCEPT
                       !.k = @ + 1,
                       !.closest_so_far = IF rec.some THEN rec.t ELSE @,
                       !.hit_rec = IF rec.some THEN rec ELSE @]
    /\ UNCHANGED <<camvars, cam_new, trace, hrec, scat, lemire>>

\* hit_rec is returned after the last sphere.
HitReturn ==
    /\ probe.pc = "scan"
    /\ probe.k > Len(probe.spheres)
    /\ probe' = [probe EXCEPT !.pc = "done"]
    /\ UNCHANGED <<camvars, cam_new, trace, hrec, scat, lemire>>

HitNext == HitSphere \/ HitReturn

SpecHit == HitInit /\ [][HitNext]_vars

\* ====================================================== HitRecord::new alone
\* Largest coordinate of a ray direction, and largest fuzz of a Metal.
MaxDir == 1
MaxFuzz == 2

Neg(u) == <<-u[1], -u[2], -u[3]>>

Add(u, v) == <<u[1] + v[1], u[2] + v[2], u[3] + v[3]>>

Scale(k, u) == <<k * u[1], k * u[2], k * u[3]>>

Vecs(k) == {<<a, b, c>> : a \in (-k) .. k, b \in (-k) .. k, c \in (-k) .. k}

\* The vectors of length one with whole coordinates: along an axis, either way.
AxisUnits == {v \in Vecs(1) : Dot(v, v) = 1}

\* Ray::at
At(pos, dir, t) == Add(pos, Scale(t, dir))

\* A call HitRecord::new(r, t, outward_normal, mat) for each ray direction
\* and each outward normal, of unit length as the function assumes.
HitRecordInit ==
    /\ CameraInit
    /\ cam_new = Off
    /\ trace = Off
    /\ probe = Off
    /\ hrec \in {[pc |-> "args", dir |-> d, t |-> t, outward_normal |-> n,
                  p |-> Origin, normal |-> Origin, front_face |-> FALSE] :
                    d \in Vecs(MaxDir), t \in 1 .. MaxCoord, n \in AxisUnits}
    /\ scat = Off
    /\ lemire = Off

\* let front_face = r.dir.dot(outward_normal) < 0.0
FrontFace_Lenient(d) == d <= 0

FrontFace(d) == d < 0

\* The record is built.
HitRecordNew ==
    /\ hrec.pc = "args"
    /\ LET front_face == FrontFace(Dot(hrec.dir, hrec.outward_normal))
       IN hrec' = [hrec EXCEPT
                      !.pc = "built",
                      !.p = At(Origin, hrec.dir, hrec.t),
                      !.normal = IF front_face THEN hrec.outward_normal
                                 ELSE Neg(hrec.outward_normal),
                      !.front_face = front_face]
    /\ UNCHANGED <<camvars, cam_new, trace, probe, scat, lemire>>

HitRecordNext == HitRecordNew

SpecHitRecord == HitRecordInit /\ [][HitRecordNext]_vars

\* ==================================================== Material::scatter alone
\* Colours are names here: an albedo is told apart from white.
Albedos == {"red", "grey"}

MaterialSet ==
    {[kind |-> "lambertian", albedo |-> al, fuzz |-> 0] : al \in Albedos}
    \cup {[kind |-> "metal", albedo |-> al, fuzz |-> f] : al \in Albedos, f \in 0 .. MaxFuzz}
    \cup {[kind |-> "dielectric", albedo |-> "none", fuzz |-> 0]}

\* The incoming directions: along an axis, so that unit() is exact.
AxisVecs == {Scale(k, u) : k \in 1 .. MaxDir, u \in AxisUnits}

\* Vec3::length and Vec3::unit, on vectors along an axis.
Length(u) == Sqrt(Dot(u, u))

Unit(u) == <<u[1] \div Length(u), u[2] \div Length(u), u[3] \div Length(u)>>

\* Vec3::reflect
Reflect(u, n) == Sub(u, Scale(2 * Dot(u, n), n))

\* Vec3::near_zero, on whole coordinates.
NearZero(u) == u = Origin

\* A call mat.scatter(rng, r_in, rec): the hit normal opposes the ray, as in a
\* HitRecord; rnd is what random_unit_vector draws, and reflects is what the
\* draw of random_f64 decides for a Dielectric.
ScatterInit ==
    /\ CameraInit
    /\ cam_new = Off
    /\ trace = Off
    /\ probe = Off
    /\ hrec = Off
    /\ scat \in {[pc |-> "args", mat |-> m, dir |-> d, normal |-> n, rnd |-> v,
                  reflects |-> b, some |-> FALSE, attenuation |-> "none",
                  scattered |-> Origin] :
                    m \in MaterialSet, d \in AxisVecs, n \in AxisUnits,
                    v \in AxisUnits, b \in BOOLEAN}
    /\ Dot(scat.dir, scat.normal) <= 0
    /\ lemire = Off

\* The Metal arm's test on the perturbed reflection.
MetalScatters_Lenient(d) == d >= 0

MetalScatters(d) == d > 0

\* reflected.unit() + fuzz * random_unit_vector(rng)
Perturbed(sc) == Add(Unit(Reflect(sc.dir, sc.normal)), Scale(sc.mat.fuzz, sc.rnd))

ScatterLambertian ==
    /\ scat.pc = "args"
    /\ scat.mat.kind = "lambertian"
    /\ LET scatter_direction == Add(scat.normal, scat.rnd)
       IN scat' = [scat EXCEPT
                      !.pc = "returned",
                      !.some = TRUE,
                      !.attenuation = scat.mat.albedo,
                      !.scattered = IF NearZero(scatter_direction) THEN scat.normal
                                    ELSE scatter_direction]
    /\ UNCHANGED <<camvars, cam_new, trace, probe, hrec, lemire>>

ScatterMetal ==
    /\ scat.pc = "args"
    /\ scat.mat.kind = "metal"
    /\ LET reflected == Perturbed(scat)
       IN IF MetalScatters(Dot(reflected, scat.normal))
          THEN scat' = [scat EXCEPT !.pc = "returned", !.some = TRUE,
                                    !.attenuation = scat.mat.albedo,
                                    !.scattered = reflected]
          ELSE scat' = [scat EXCEPT !.pc = "returned", !.some = FALSE]
    /\ UNCHANGED <<camvars, cam_new, trace, probe, hrec, lemire>>

\* The refracted direction is left out: either way the arm returns Some with
\* a white attenuation; a reflected ray has its direction, a refracted one is
\* marked by the zero vector.
ScatterDielectric ==
    /\ scat.pc = "args"
    /\ scat.mat.kind = "dielectric"
    /\ scat' = [scat EXCEPT
                   !.pc = "returned",
                   !.some = TRUE,
                   !.attenuation = "white",
                   !.scattered = IF scat.reflects
                                 THEN Reflect(Unit(scat.dir), scat.normal)
                                 ELSE Origin]
    /\ UNCHANGED <<camvars, cam_new, trace, probe, hrec, lemire>>

ScatterNext == ScatterLambertian \/ ScatterMetal \/ ScatterDielectric

SpecScatter == ScatterInit /\ [][ScatterNext]_vars

\* ===================================================== View::ray_color alone
\* Largest bounce budget of the runs of ray_color.
MaxDepth == 5

Materials == {"lambertian", "metal", "dielectric"}

\* Colours in tenths: Color::new(1.0, 1.0, 1.0) and Color::new(0.5, 0.7, 1.0).
SkyWhite == <<10, 10, 10>>

SkyBlue == <<5, 7, 10>>

Black == <<0, 0, 0>>

\* The background gradient, with a in halves (a2 = 2a) and the colour in
\* twentieths: (1.0 - a) * white + a * blue, a = 0.5 * (unit_direction.y + 1.0).
Background(dir) ==
    LET unit_direction == Unit(dir)
        a2 == unit_direction[2] + 1
    IN Add(Scale(2 - a2, SkyWhite), Scale(a2, SkyBlue))

\* A call ray_color(rng, d, r, scene) for each budget d and each ray along an
\* axis; the scene and the random stream are left open: every query may hit
\* or miss, what the hit material does is chosen when it scatters, and so is
\* the scattered ray. dir is the ray of the innermost call made so far, draws
\* counts the scatters that drew from the random generator, and value is the
\* colour returned: base times the attenuations of `bounces` scatters.
TraceInit ==
    /\ CameraInit
    /\ cam_new = Off
    /\ trace \in {[pc |-> "call", max_depth |-> d, depth |-> d, frames |-> 0,
                   queries |-> 0, scatters |-> 0, mat |-> "none", color |-> "none",
                   dir |-> v, draws |-> 0, value |-> [base |-> Black, bounces |-> 0]] :
                      d \in 0 .. MaxDepth, v \in AxisVecs}
    /\ probe = Off
    /\ hrec = Off
    /\ scat = Off
    /\ lemire = Off

\* The budget handed to the recursive call.
NextDepth_Same(d) == d

NextDepth(d) == d - 1

\* if depth == 0 { return Color::new(0.0, 0.0, 0.0); }
TraceExhausted ==
    /\ trace.pc = "call"
    /\ trace.depth = 0
    /\ trace' = [trace EXCEPT !.pc = "return", !.color = "black",
                              !.value = [base |-> Black, bounces |-> 0]]
    /\ UNCHANGED <<camvars, cam_new, probe, hrec, scat, lemire>>

\* A miss that jitters the background with a random draw.
TraceQuery_MissDraws ==
    /\ trace.pc = "call"
    /\ trace.depth > 0
    /\ \/ \E m \in Materials :
             trace' = [trace EXCEPT !.pc = "scatter", !.queries = @ + 1, !.mat = m]
       \/ trace' = [trace EXCEPT !.pc = "return", !.queries = @ + 1, !.color = "light",
                                 !.draws = @ + 1,
                                 !.value = [base |-> Background(trace.dir), bounces |-> 0]]
    /\ UNCHANGED <<camvars, cam_new, probe, hrec, scat, lemire>>

\* scene.hit(r, 0.001, INFINITY): a hit with some material, or a miss, which
\* returns the background gradient of the ray's direction.
TraceQuery ==
    /\ trace.pc = "call"
    /\ trace.depth > 0
    /\ \/ \E m \in Materials :
             trace' = [trace EXCEPT !.pc = "scatter", !.queries = @ + 1, !.mat = m]
       \/ trace' = [trace EXCEPT !.pc = "return", !.queries = @ + 1, !.color = "light",
                                 !.value = [base |-> Background(trace.dir), bounces |-> 0]]
    /\ UNCHANGED <<camvars, cam_new, probe, hrec, scat, lemire>>

\* The calls of the generator's owner that one scatter makes, counted as 0 or
\* 1: Lambertian and Metal always call random_unit_vector; Dielectric calls
\* random_f64 only when cannot_refract is false (the || short-circuits), so a
\* total internal reflection draws nothing.
ScatterDraws(m) == IF m = "dielectric" THEN {0, 1} ELSE {1}

\* rec.mat.scatter(rng, r, &rec): Some, and the recursive call on the
\* scattered ray, or None (a Metal only), which returns black.
TraceScatter ==
    /\ trace.pc = "scatter"
    /\ \E n \in ScatterDraws(trace.mat) :
          \/ \E v \in AxisVecs :
                trace' = [trace EXCEPT !.pc = "call", !.scatters = @ + 1, !.mat = "none",
                                       !.draws = @ + n, !.dir = v,
                                       !.depth = NextDepth(@), !.frames = @ + 1]
          \/ /\ trace.mat = "metal"
             /\ trace' = [trace EXCEPT !.pc = "return", !.scatters = @ + 1, !.mat = "none",
                                       !.draws = @ + n, !.color = "black",
                                       !.value = [base |-> Black, bounces |-> 0]]
    /\ UNCHANGED <<camvars, cam_new, probe, hrec, scat, lemire>>

\* A recursive call returns into sc_rec.attenuation * ..., which keeps black
\* black and puts one more attenuation on any other colour; the outermost
\* call returns to its caller.
TraceReturn ==
    /\ trace.pc = "return"
    /\ IF trace.frames > 0
       THEN trace' = [trace EXCEPT !.frames = @ - 1, !.depth = @ + 1,
                                   !.value = IF @.base = Black THEN @
                                             ELSE [@ EXCEPT !.bounces = @ + 1]]
       ELSE trace' = [trace EXCEPT !.pc = "done"]
    /\ UNCHANGED <<camvars, cam_new, probe, hrec, scat, lemire>>

TraceNext == TraceExhausted \/ TraceQuery \/ TraceScatter \/ TraceReturn

SpecTrace == TraceInit /\ [][TraceNext]_vars

\* ================================================ Rng::random_u64 alone
\* The word is WordBits wide instead of 64 bits, the double-width product
\* twice that, and random_f64 uses FracBits of them instead of 53.
WordBits == 4
FracBits == 3

RECURSIVE Pow2(_)
Pow2(n) == IF n = 0 THEN 1 ELSE 2 * Pow2(n - 1)

Word == Pow2(WordBits)

Words == 0 .. (Word - 1)

\* u64::wrapping_neg
WrappingNeg(v) == (Word - v) % Word

\* (m & 0xffff_ffff_ffff_ffff) as u64
LowWord(m) == m % Word

\* (m >> 64) as u64
HighWord(m) == m \div Word

\* let limit = (1 << 53) - 1
Limit == Pow2(FracBits) - 1

\* n as f64 / limit as f64: both conversions are exact below 2^FracBits, and
\* the quotient is rounded to the nearest multiple of 2^-FracBits, the spacing
\* of the floats just below 1.0; the result is the numerator over 2^FracBits.
FloatDiv(n, d) == (2 * n * Pow2(FracBits) + d) \div (2 * d)

\* A call random_u64(s) for each s, or a call random_f64().
RngInit ==
    /\ CameraInit
    /\ cam_new = Off
    /\ trace = Off
    /\ probe = Off
    /\ hrec = Off
    /\ scat = Off
    /\ lemire \in {[pc |-> "first", fn |-> "u64", s |-> v, x |-> 0, m |-> 0, l |-> 0,
                    t |-> 0, result |-> 0, f64 |-> 0] : v \in Words}
                  \cup {[pc |-> "f64", fn |-> "f64", s |-> 0, x |-> 0, m |-> 0, l |-> 0,
                         t |-> 0, result |-> 0, f64 |-> 0]}

\* random_f64 calls self.random_u64(limit - 1).
RngF64 ==
    /\ lemire.pc = "f64"
    /\ lemire' = [lemire EXCEPT !.pc = "first", !.s = Limit - 1]
    /\ UNCHANGED <<camvars, cam_new, trace, probe, hrec, scat>>

\* let mut x = self.xoshiro256p_next(); m = x * s; l = low word of m;
\* if l < s { let t = s.wrapping_neg() % s; ... }. The generator's output is
\* any word.
RngFirst(xx) ==
    /\ lemire.pc = "first"
    /\ LET mm == xx * lemire.s
           ll == LowWord(mm)
       IN lemire' = [lemire EXCEPT
                        !.x = xx, !.m = mm, !.l = ll,
                        !.t = IF ll < lemire.s THEN WrappingNeg(lemire.s) % lemire.s ELSE 0,
                        !.pc = IF ll < lemire.s THEN "loop" ELSE "ret"]
    /\ UNCHANGED <<camvars, cam_new, trace, probe, hrec, scat>>

\* while l < t { x = self.xoshiro256p_next(); m = ...; l = ...; }
RngReject(xx) ==
    /\ lemire.pc = "loop"
    /\ lemire.l < lemire.t
    /\ LET mm == xx * lemire.s
       IN lemire' = [lemire EXCEPT !.x = xx, !.m = mm, !.l = LowWord(mm)]
    /\ UNCHANGED <<camvars, cam_new, trace, probe, hrec, scat>>

\* The loop's test fails: the value is accepted.
RngAccept ==
    /\ lemire.pc = "loop"
    /\ ~(lemire.l < lemire.t)
    /\ lemire' = [lemire EXCEPT !.pc = "ret"]
    /\ UNCHANGED <<camvars, cam_new, trace, probe, hrec, scat>>

\* A return of the low word of the product instead of the high one.
RngResult_LowWord(m) == LowWord(m)

\* (m >> 64) as u64
RngResult(m) == HighWord(m)

\* random_u64 returns, and random_f64 divides by limit.
RngReturn ==
    /\ lemire.pc = "ret"
    /\ LET r == RngResult(lemire.m)
       IN lemire' = [lemire EXCEPT
                        !.pc = "done", !.result = r,
                        !.f64 = IF lemire.fn = "f64" THEN FloatDiv(r, Limit) ELSE 0]
    /\ UNCHANGED <<camvars, cam_new, trace, probe, hrec, scat>>

RngNext ==
    \/ RngF64
    \/ \E xx \in Words : RngFirst(xx)
    \/ \E xx \in Words : RngReject(xx)
    \/ RngAccept
    \/ RngReturn

SpecRng == RngInit /\ [][RngNext]_vars

\* A draw in the loop that yields a value the loop accepts.
RngAcceptedDraw == \E xx \in Words : RngReject(xx) /\ ~(lemire'.l < lemire'.t)

\* The call runs on, and the generator does not withhold the accepted values
\* for ever: xoshiro256+ goes through every state but zero, so through every
\* output word.
FairRng ==
    /\ SpecRng
    /\ WF_vars(RngF64 \/ (\E xx \in Words : RngFirst(xx)) \/ RngAccept \/ RngReturn)
    /\ WF_vars(RngAcceptedDraw)

\* ================================================================ claims

\* Positions of a worker inside the call of View::render.
InRender(i) == wpc[i] \in {"render", "sample", "pixel", "rowend", "pause"}

\* A worker is in the middle of a row: some pixel of the row is sampled and the
\* row cursor has not moved past the row yet.
MidRow(i) == (wpc[i] = "sample" /\ x[i] > 0) \/ wpc[i] \in {"pixel", "rowend"}

\* The control thread is between two calls of Camera::render.
BetweenTicks == cpc \in {"done", "idle", "view_lock", "view_f"}

\* C1: passes_wanted changes only in the increment step of a tick, where it
\* grows by exactly 1 if and only if every report received in the tick is >= the
\* value that was broadcast (still the value of passes_wanted at that step), and
\* is left unchanged otherwise; so it never decreases and grows by at most 1 per
\* tick.
C1_TargetStep ==
    [][/\ cpc = "incr" =>
            passes_wanted' = passes_wanted +
                (IF \A i \in Views : passes_done[i] >= passes_wanted THEN 1 ELSE 0)
       /\ cpc # "incr" => passes_wanted' = passes_wanted
       /\ \A i \in Views : wpc[i] # "recv" => w_passes_wanted[i] = passes_wanted
      ]_vars

C1_Witness ==
    /\ cpc = "unpause"
    /\ passes_wanted = 2
    /\ \A i \in Views : passes_done[i] = 1

\* C2: while the host reads a strip through for_each_view, the strip's worker is
\* outside View::render (it waits for a request) and the mutex is the host's;
\* every row the host sees is uniformly written (all its pixels carry the same
\* pass count) and the four bytes of every pixel come from the same write.
C2_ReadsWholeRows ==
    cpc = "view_f" =>
        /\ wpc[ci] = "recv"
        /\ lock[ci] = "host"
        /\ \A r \in Rows : \A c \in Cols(ci) :
              /\ \A b \in Bytes : pixel_buf[ci][r][c][b] = pixel_buf[ci][r][c][0]
              /\ pixel_buf[ci][r][c][0] = pixel_buf[ci][r][0][0]

\* The host reads a strip more than one pixel wide that was paused in the
\* middle of its second pass.
C2_Witness ==
    /\ cpc = "view_f"
    /\ ViewWidth(ci) >= 2
    /\ render_passes[ci] = 1
    /\ start_row[ci] = 1
    /\ pixel_buf[ci][0][0][0] = 2
    /\ pixel_buf[ci][1][0][0] = 1

\* C3: whenever a worker is not in the middle of a row, every pixel of row r of
\* its strip has accumulated render_passes + 1 samples if r < start_row and
\* render_passes samples otherwise.
C3_RowCursorCounts ==
    \A i \in Views : ~MidRow(i) =>
        \A r \in Rows : \A c \in Cols(i) :
            color_buf[i][r][c] = render_passes[i] + (IF r < start_row[i] THEN 1 ELSE 0)

\* A worker resumes its second pass at row 1, having completed no row yet in
\* this call.
C3_Witness ==
    \E i \in Views :
        /\ wpc[i] = "sample"
        /\ x[i] = 0
        /\ y[i] = 1
        /\ rows[i] = 0
        /\ render_passes[i] = 1

\* C4: when Camera::render is about to return, the deadline has been reached,
\* every worker has delivered its report of this tick, every worker is out of
\* View::render, at a row boundary and waiting for the next request, and the
\* pause flag is false.
C4_ReturnState ==
    cpc = "done" =>
        /\ now >= until
        /\ ~pause
        /\ \A i \in Views :
              /\ passes_done[i] >= 0
              /\ wpc[i] = "recv"
              /\ ~MidRow(i)
              /\ lock[i] # "worker"

\* A tick with a deadline ahead returns with a worker paused in mid-pass.
C4_Witness ==
    /\ cpc = "done"
    /\ until = MaxTime
    /\ \E i \in Views : start_row[i] > 0

\* C5 as claimed: in a tick whose deadline had passed when render was called,
\* every worker has completed at least one row when it reports.
C5_EveryWorkerAdvances ==
    \A i \in Views : (wpc[i] = "send" /\ until < 0) => rows[i] >= 1

\* C5 amended: in a tick whose deadline had passed when render was called, a
\* worker that reports without having completed a row was already at the
\* requested pass count (rows = 0 leaves render_passes as it was at the call);
\* every worker below the request completes at least one row.
C5_BelowTargetAdvances ==
    \A i \in Views :
        (wpc[i] = "send" /\ until < 0 /\ rows[i] = 0) =>
            render_passes[i] >= w_passes_wanted[i]

\* With a passed deadline a worker below the request was stopped after exactly
\* one row.
C5_Witness ==
    \E i \in Views :
        /\ wpc[i] = "send"
        /\ until < 0
        /\ rows[i] = 1
        /\ render_passes[i] < w_passes_wanted[i]

\* C6 as claimed: after the pause flag is cleared at the end of a tick, and
\* before the next request, a worker with work left can take a step.
C6_WorkersRunBetweenTicks ==
    (cpc \in {"done", "idle"} /\ \E i \in Views : render_passes[i] < passes_wanted) =>
        \E i \in Views : ENABLED Worker(i)

\* C6 amended: between the clearing of the pause flag and the next request
\* every worker is blocked in recv: none renders, whatever work is left.
C6_WorkersWaitBetweenTicks ==
    BetweenTicks => \A i \in Views : wpc[i] = "recv" /\ ~ENABLED Worker(i)

\* Between two ticks the flag is clear and a worker is in mid-pass, below the
\* target.
C6_Witness ==
    /\ cpc = "idle"
    /\ ~pause
    /\ \E i \in Views : start_row[i] > 0 /\ render_passes[i] < passes_wanted

\* C7 as claimed: a worker that enters View::render having reached the request,
\* while another strip is behind the target, goes on to sample.
C7_FastStripKeepsRendering ==
    [][\A i \in Views :
          (/\ wpc[i] = "render"
           /\ wpc'[i] # "render"
           /\ w_passes_wanted[i] >= 1
           /\ render_passes[i] >= w_passes_wanted[i]
           /\ \E j \in Views : render_passes[j] < passes_wanted)
          => wpc'[i] = "sample"
      ]_vars

\* C7 amended: a strip whose render_passes has reached the target adds no sample
\* and writes no pixel in any step, until the target is raised.
C7_FastStripWaits ==
    [][\A i \in Views :
          render_passes[i] >= passes_wanted =>
              /\ color_buf'[i] = color_buf[i]
              /\ pixel_buf'[i] = pixel_buf[i]
      ]_vars

\* A strip at the target has served a request without rendering while another
\* strip is behind.
C7_Witness ==
    \E i, j \in Views :
        /\ wpc[i] = "send"
        /\ rows[i] = 0
        /\ passes_wanted >= 1
        /\ render_passes[i] = passes_wanted
        /\ render_passes[j] < passes_wanted

\* C8: a worker owns its strip's mutex exactly from its lock to its drop, around
\* the call of View::render: never while it waits in recv or send, and never
\* between two ticks.
C8_LockOnlyInRender ==
    \A i \in Views :
        /\ (lock[i] = "worker") <=> (InRender(i) \/ wpc[i] = "drop")
        /\ BetweenTicks => lock[i] # "worker"

\* A worker that rendered waits in send with the mutex free while the control
\* thread has not yet started to gather.
C8_Witness ==
    \E i \in Views :
        /\ wpc[i] = "send"
        /\ rows[i] >= 1
        /\ lock[i] = "free"
        /\ cpc = "sleep"

\* C9: no worker's render_passes exceeds the coordinator's passes_wanted.
C9_NoMoreThanWanted ==
    \A i \in Views : render_passes[i] <= passes_wanted

\* A worker has completed the second requested pass.
C9_Witness ==
    \E i \in Views :
        /\ wpc[i] = "send"
        /\ passes_wanted = 2
        /\ render_passes[i] = 2

\* C10: the pause flag is true only from its store in a tick to its clearing in
\* the same tick; it is false whenever a request is handed to a worker, and a
\* worker serving a request never sees a flag from the tick before.
C10_NoStalePause ==
    /\ pause => cpc \in {"gather", "incr", "unpause"}
    /\ cpc = "send" => ~pause

\* Work is re-issued after a tick that paused a worker in mid-pass.
C10_Witness ==
    /\ cpc = "send"
    /\ ci = 1
    /\ wpc[0] = "lock"
    /\ passes_wanted >= 1
    /\ \E i \in Views : start_row[i] > 0

\* C11: start_row stays in [0, height); the step that finishes a row moves
\* start_row up by exactly one, except that finishing row height-1 puts it back
\* to 0 and adds exactly one to render_passes in the same step; no other step
\* changes start_row or render_passes.
C11_RowPassMachine ==
    [][\A i \in Views :
          /\ start_row'[i] \in Rows
          /\ IF wpc[i] = "rowend" /\ wpc'[i] # "rowend"
             THEN IF y[i] = ImageHeight - 1
                  THEN /\ start_row'[i] = 0
                       /\ render_passes'[i] = render_passes[i] + 1
                  ELSE /\ start_row'[i] = start_row[i] + 1
                       /\ render_passes'[i] = render_passes[i]
             ELSE /\ start_row'[i] = start_row[i]
                  /\ render_passes'[i] = render_passes[i]
      ]_vars

\* A worker has just finished the last row of its second pass.
C11_Witness ==
    \E i \in Views :
        /\ wpc[i] = "pause"
        /\ y[i] = ImageHeight - 1
        /\ start_row[i] = 0
        /\ render_passes[i] = 2

\* C12: the divisor of a pixel write is the number of samples its accumulator
\* holds at the write: a worker about to store a pixel has passes_plus_one equal
\* to that pixel's sample count, and every pixel of the display buffer that is
\* not between its sample and its store carries the count of its accumulator.
C12_DivisorIsSampleCount ==
    \A i \in Views :
        /\ wpc[i] = "pixel" => passes_plus_one[i] = color_buf[i][y[i]][x[i]]
        /\ \A r \in Rows : \A c \in Cols(i) :
              (wpc[i] = "pixel" /\ r = y[i] /\ c = x[i])
              \/ \A b \in Bytes : pixel_buf[i][r][c][b] = color_buf[i][r][c]

\* A pixel of row 1 is about to be stored in a second pass that was resumed at
\* that row.
C12_Witness ==
    \E i \in Views :
        /\ wpc[i] = "pixel"
        /\ y[i] = 1
        /\ rows[i] = 0
        /\ passes_plus_one[i] = 2

\* C16: the pause flag acts at row boundaries only, and at the first one: a
\* worker leaves the row loop only from the test after a completed row (or
\* returns at once on entry), never from inside a row; a test made while the
\* flag is set always stops the worker, so after the store it completes the row
\* it is in or the one row it was about to begin; and it stops with start_row
\* at the first row of the pass that has not been rendered.
C16_PauseAtRowBoundary ==
    [][\A i \in Views :
          /\ (wpc'[i] = "drop" /\ wpc[i] # "drop") => wpc[i] \in {"render", "pause"}
          /\ (pause /\ wpc[i] = "pause" /\ wpc'[i] # "pause") =>
                /\ wpc'[i] = "drop"
                /\ \A r \in Rows : \A c \in Cols(i) :
                      color_buf[i][r][c] =
                          render_passes[i] + (IF r < start_row[i] THEN 1 ELSE 0)
      ]_vars

\* The flag has stopped a worker in mid-pass after at least one row.
C16_Witness ==
    \E i \in Views :
        /\ pause
        /\ wpc[i] = "drop"
        /\ rows[i] >= 1
        /\ start_row[i] > 0

RECURSIVE SeqSum(_)
SeqSum(q) == IF q = <<>> THEN 0 ELSE Head(q) + SeqSum(Tail(q))

\* C13: in a Camera that was constructed, strip i starts at column i*W/n, the
\* first strip starts at 0, each strip starts where the one before ends and the
\* last ends at W (contiguous, pairwise disjoint), the widths sum to W, every
\* width is >= 1, two widths differ by at most one, and every strip has the
\* image height.
C13_StripsPartition ==
    cam_new.pc = "returned" =>
        LET n == cam_new.num_views
            w == cam_new.image_width
            xs == cam_new.view_xs
            ws == cam_new.view_widths
        IN /\ Len(xs) = n /\ Len(ws) = n /\ Len(cam_new.view_heights) = n
           /\ xs[1] = 0
           /\ xs[n] + ws[n] = w
           /\ SeqSum(ws) = w
           /\ \A k \in 1 .. n :
                 /\ xs[k] * n <= (k - 1) * w
                 /\ (k - 1) * w < (xs[k] + 1) * n
                 /\ ws[k] >= 1
                 /\ k < n => xs[k + 1] = xs[k] + ws[k]
                 /\ cam_new.view_heights[k] = cam_new.image_height
                 /\ \A j \in 1 .. n : ws[k] - ws[j] <= 1

\* A Camera of three strips over a width the count does not divide.
C13_Witness ==
    /\ cam_new.pc = "returned"
    /\ cam_new.num_views = 3
    /\ cam_new.image_width = 5

\* C14 as stated: Camera::new panics exactly for a worker count of 0 or above
\* the image width, before any thread is spawned or any strip is made, and
\* returns a Camera with one thread per strip for every count in
\* 1..=image_width.
C14_RejectsBadCounts ==
    cam_new.pc \in {"loop", "panicked", "returned"} =>
        /\ (cam_new.pc = "panicked") <=>
              (cam_new.num_views = 0 \/ cam_new.num_views > cam_new.image_width)
        /\ cam_new.pc = "panicked" => (cam_new.spawned = 0 /\ cam_new.view_xs = <<>>)
        /\ cam_new.pc = "returned" => cam_new.spawned = cam_new.num_views

\* C14, what Camera::new does: a worker count of 0 or above the image width
\* is rejected before any thread is spawned or any strip is made; a count in
\* 1..=image_width is rejected too, after the threads of the strips before it
\* were spawned, when the seed of one of its strips overflows and the build
\* checks overflow; every other call returns a Camera with one thread per
\* strip, strip i seeded with rng_seed + i, wrapped.
C14_RejectsBadCountsAndSeeds ==
    LET n == cam_new.num_views
        bad_count == n = 0 \/ n > cam_new.image_width
        first_overflow == MaxSeed + 1 - cam_new.rng_seed
        bad_seed == cam_new.overflow_checks /\ first_overflow < n
    IN /\ cam_new.pc = "panicked" => (bad_count \/ bad_seed)
       /\ (cam_new.pc = "panicked" /\ bad_count) =>
             (cam_new.spawned = 0 /\ cam_new.view_xs = <<>>)
       /\ (cam_new.pc = "panicked" /\ ~bad_count) =>
             (cam_new.spawned = first_overflow /\ cam_new.i = first_overflow)
       /\ cam_new.pc = "loop" => ~bad_count
       /\ cam_new.pc = "returned" =>
             /\ ~bad_count /\ ~bad_seed
             /\ cam_new.spawned = n
             /\ Len(cam_new.view_seeds) = n
             /\ \A k \in 1 .. n :
                   cam_new.view_seeds[k] = (cam_new.rng_seed + k - 1) % (MaxSeed + 1)

\* Two strips over a width of 3 with the largest seed, overflow checked: the
\* call panicked at the second strip's seed, the first strip's thread running.
C14_Witness ==
    /\ cam_new.pc = "panicked"
    /\ cam_new.num_views = 2
    /\ cam_new.image_width = 3
    /\ cam_new.rng_seed = MaxSeed
    /\ cam_new.spawned = 1

\* C15: when the control thread, inside Camera::render, is at the send to or
\* the receive from a worker that has terminated, the operation does not
\* block (its failure is the step that can be taken, the rendezvous cannot),
\* and the step the control thread takes from there is the panic: it goes on
\* to no later statement of render and does not return.
C15_DeadWorkerIsFatal ==
    /\ [](\A i \in Views :
            (wpc[i] = "dead" /\ ci = i) =>
                /\ cpc = "send" => (ENABLED SendFails(i) /\ ~ENABLED Request(i))
                /\ cpc = "gather" => (ENABLED RecvFails(i) /\ ~ENABLED Report(i)))
    /\ [][(cpc \in {"send", "gather"} /\ wpc[ci] = "dead" /\ <<cpc, ci>>' # <<cpc, ci>>)
            => cpc' = "panicked"]_vars

\* The control thread has panicked in the gather loop on the second strip,
\* whose worker died while it rendered, the first having reported.
C15_Witness ==
    /\ cpc = "panicked"
    /\ ci = 1
    /\ pause
    /\ wpc[1] = "dead"
    /\ lock[1] = "poisoned"
    /\ passes_done[0] >= 0

\* C17: a call of ray_color with budget d makes at most d scene queries and at
\* most d scatters, each nested call having one less than its caller, and is
\* never stuck before it has returned; with d = 0 it makes no query and returns
\* black.
C17_BouncesBounded ==
    trace.pc # "off" =>
        /\ trace.queries <= trace.max_depth
        /\ trace.scatters <= trace.max_depth
        /\ trace.frames <= trace.max_depth
        /\ trace.pc \in {"call", "scatter"} => trace.depth = trace.max_depth - trace.frames
        /\ trace.pc # "done" => ENABLED TraceNext
        /\ (trace.pc = "done" /\ trace.max_depth = 0) =>
              (trace.queries = 0 /\ trace.scatters = 0 /\ trace.color = "black")

\* A call that used its whole budget: as many queries and scatters as the
\* depth it was given, then black.
C17_Witness ==
    /\ trace.pc = "done"
    /\ trace.max_depth = MaxDepth
    /\ trace.queries = MaxDepth
    /\ trace.scatters = MaxDepth
    /\ trace.color = "black"

\* The parameters t at which the ray meets the sphere: the solutions of
\* |pos + t*dir - center|^2 = radius^2 among the values the instances allow.
RootsOf(sp, dir) ==
    {t \in (-Beyond) .. Beyond :
        LET q == Sub(<<t * dir[1], t * dir[2], t * dir[3]>>, sp.center)
        IN Dot(q, q) = sp.radius * sp.radius}

ValidRoots(pr) ==
    {t \in UNION {RootsOf(pr.spheres[j], pr.dir) : j \in 1 .. Len(pr.spheres)} :
        pr.ray_tmin < t /\ t < pr.ray_tmax}

\* C18: Scene::hit returns none exactly when no sphere has a root strictly
\* between tMin and tMax, and otherwise a hit whose t is the least such root
\* over all spheres, which is a function of the set of spheres and not of
\* their order.
C18_NearestRoot ==
    probe.pc = "done" =>
        /\ probe.hit_rec.some <=> ValidRoots(probe) # {}
        /\ probe.hit_rec.some =>
              /\ probe.hit_rec.t \in ValidRoots(probe)
              /\ \A t \in ValidRoots(probe) : probe.hit_rec.t <= t

\* The nearer sphere was added first and the farther one second, the farther
\* one is hit only at its second root because its first lies on tMin, and the
\* hit of the nearer one is returned.
C18_Witness ==
    /\ probe.pc = "done"
    /\ Len(probe.spheres) = 2
    /\ probe.hit_rec.some
    /\ SphereHit(probe.spheres[2], Origin, probe.dir, probe.ray_tmin, probe.ray_tmax).some
    /\ SphereHit(probe.spheres[2], Origin, probe.dir, probe.ray_tmin, probe.ray_tmax).t
          > probe.hit_rec.t
    /\ probe.ray_tmin \in RootsOf(probe.spheres[2], probe.dir)

\* C19: in every hit record the stored normal opposes the ray (their dot
\* product is <= 0), front_face is true exactly when the ray and the outward
\* normal have a negative dot product, and the stored normal is the outward
\* normal when front_face is true and its negation otherwise.
C19_NormalOpposesRay ==
    hrec.pc = "built" =>
        /\ Dot(hrec.dir, hrec.normal) <= 0
        /\ hrec.front_face <=> Dot(hrec.dir, hrec.outward_normal) < 0
        /\ hrec.front_face => hrec.normal = hrec.outward_normal
        /\ ~hrec.front_face => hrec.normal = Neg(hrec.outward_normal)

\* A ray that grazes the surface: perpendicular to the outward normal, not a
\* front face, the normal negated.
C19_Witness ==
    /\ hrec.pc = "built"
    /\ hrec.dir # Origin
    /\ Dot(hrec.dir, hrec.outward_normal) = 0
    /\ ~hrec.front_face
    /\ hrec.normal = Neg(hrec.outward_normal)

\* C20: scatter returns none only for a Metal, and for a Metal exactly when
\* the reflected direction, made unit and perturbed by fuzz times the random
\* unit vector, has a dot product <= 0 with the hit normal; a Lambertian
\* always returns a record with its albedo, a Dielectric one with white, and
\* a Metal that returns a record returns its albedo.
C20_OnlyMetalAbsorbs ==
    scat.pc = "returned" =>
        /\ ~scat.some => scat.mat.kind = "metal"
        /\ scat.mat.kind = "metal" =>
              /\ ~scat.some <=> Dot(Add(Unit(Reflect(scat.dir, scat.normal)),
                                        Scale(scat.mat.fuzz, scat.rnd)),
                                    scat.normal) <= 0
              /\ scat.some => scat.attenuation = scat.mat.albedo
        /\ scat.mat.kind = "lambertian" =>
              (scat.some /\ scat.attenuation = scat.mat.albedo)
        /\ scat.mat.kind = "dielectric" => (scat.some /\ scat.attenuation = "white")

\* A Metal absorbed a ray whose perturbed reflection lies in the surface: the
\* fuzz cancelled the reflection exactly.
C20_Witness ==
    /\ scat.pc = "returned"
    /\ scat.mat.kind = "metal"
    /\ scat.mat.fuzz = 1
    /\ Dot(scat.dir, scat.normal) < 0
    /\ Perturbed(scat) = Origin
    /\ ~scat.some

\* Passes completed so far by the View::render call in progress: how often the
\* row cursor has wrapped, from the rows the call completed and the cursor.
Wraps(i) ==
    (((start_row[i] - rows[i]) % ImageHeight) + rows[i] - start_row[i]) \div ImageHeight

\* C23: between two ticks, once the target is at least 1, every strip has
\* completed the target's number of passes or one less, so two strips are at
\* most one pass apart; and one request completes at most one pass.
C23_LockStep ==
    \A i \in Views :
        /\ (BetweenTicks /\ passes_wanted >= 1) =>
              /\ render_passes[i] \in {passes_wanted - 1, passes_wanted}
              /\ \A j \in Views : render_passes[i] - render_passes[j] <= 1
        /\ Wraps(i) <= 1

\* Between two ticks one strip has reached a target of 2 and the other is one
\* pass behind, part of the way through it.
C23_Witness ==
    /\ cpc = "idle"
    /\ passes_wanted = 2
    /\ render_passes[0] = 2
    /\ render_passes[1] = 1
    /\ start_row[1] > 0

\* A request that asks for no more passes than the strip has, before its
\* report: no row has been rendered for it.
NoOp(i) ==
    /\ wpc[i] \in {"lock", "render", "drop", "send"}
    /\ rows[i] = 0
    /\ w_passes_wanted[i] <= render_passes[i]

\* C26: a request for no more passes than the strip has goes from the lock to
\* the call, out of it, to the release and to the report, which carries the
\* unchanged pass count; no step changes the strip's accumulator, display
\* buffer, row cursor or pass count. While the target is 0 no pixel of any
\* strip has been written, and the first tick raises the target to 1.
C26_NoOpRequest ==
    /\ [](passes_wanted = 0 =>
            \A i \in Views : \A r \in Rows : \A c \in Cols(i) :
                /\ color_buf[i][r][c] = 0
                /\ \A b \in Bytes : pixel_buf[i][r][c][b] = 0)
    /\ [][/\ (passes_wanted = 0 /\ cpc = "incr") => passes_wanted' = 1
          /\ \A i \in Views :
                NoOp(i) =>
                    /\ color_buf'[i] = color_buf[i]
                    /\ pixel_buf'[i] = pixel_buf[i]
                    /\ start_row'[i] = start_row[i]
                    /\ render_passes'[i] = render_passes[i]
                    /\ wpc'[i] # wpc[i] =>
                          /\ <<wpc[i], wpc'[i]>> \in {<<"lock", "render">>, <<"render", "drop">>,
                                                      <<"drop", "send">>, <<"send", "recv">>}
                          /\ wpc[i] = "send" => passes_done'[i] = render_passes[i]
         ]_vars

\* A strip that had reached the target of 1 was asked for 1 again, because the
\* other strip had not: it reports without having touched its written buffer.
C26_Witness ==
    /\ NoOp(0)
    /\ wpc[0] = "send"
    /\ w_passes_wanted[0] = 1
    /\ render_passes[0] = 1
    /\ render_passes[1] = 0
    /\ \A r \in Rows : \A c \in Cols(0) : pixel_buf[0][r][c][0] = 1

\* C24: with every thread that can run eventually run, every call of
\* Camera::render and every call of Camera::for_each_view returns, to a state
\* where every worker waits for its next request and every mutex is free: no
\* thread waits forever on a channel or on a mutex.
C24_NoThreadWaitsForever ==
    (cpc # "idle") ~> (cpc = "idle" /\ \A i \in Views : wpc[i] = "recv" /\ lock[i] = "free")

\* A for_each_view that follows a tick in which both strips rendered holds
\* the mutex of the second strip, the workers waiting for their next request.
C24_Witness ==
    /\ cpc = "view_f"
    /\ ci = 1
    /\ lock[1] = "host"
    /\ passes_wanted >= 2
    /\ \A i \in Views : wpc[i] = "recv" /\ render_passes[i] >= 1

\* C25: after an increment of the target, fewer than `height` ticks in a row
\* end without the next increment, however early each tick is paused: every
\* strip below the target completes a row or more per tick, so the tick that
\* follows height - 1 ticks without an increment finds every strip at the
\* target and increments it.
C25_IncrementWithinHeightTicks ==
    /\ ticks < ImageHeight
    /\ (cpc = "incr" /\ ticks = ImageHeight - 1) => all_passes_done

\* The gather loop of the last of `height` ticks since the target went to 2 has
\* found every strip at the target, after ticks that each ended without an
\* increment.
C25_Witness ==
    /\ cpc = "incr"
    /\ ticks = ImageHeight - 1
    /\ passes_wanted = 2
    /\ all_passes_done
    /\ \A i \in Views : render_passes[i] = 2

\* C22: a call of ray_color whose ray hits nothing returns the background
\* gradient of that ray's direction (in twentieths: white for a ray straight
\* down, (0.5, 0.7, 1.0) straight up, their mean for a level ray), the same
\* for every budget above 0, and
\* draws nothing from the random generator: the only draws are those of the
\* scatters made before it, at most one drawing call each.
C22_MissIsBackground ==
    (trace.pc = "return" /\ trace.color = "light" /\ trace.value.bounces = 0) =>
        /\ trace.depth > 0
        /\ trace.value.base =
              (IF trace.dir[2] > 0 THEN <<10, 14, 20>>
               ELSE IF trace.dir[2] < 0 THEN <<20, 20, 20>>
               ELSE <<15, 17, 20>>)
        /\ trace.draws <= trace.scatters
        /\ trace.frames = 0 => trace.draws = 0

\* The ray of the outermost call, pointing straight up with the largest
\* budget, missed: pure blue, no draw.
C22_Witness ==
    /\ trace.pc = "done"
    /\ trace.max_depth = MaxDepth
    /\ trace.queries = 1
    /\ trace.dir = <<0, 1, 0>>
    /\ trace.value = [base |-> Scale(2, SkyBlue), bounces |-> 0]
    /\ trace.draws = 0

\* C21: random_u64(s) returns a value below s for every s >= 1 and 0 for
\* s = 0, where it computes no remainder; its rejection loop always has an
\* accepted value to draw and ends; and random_f64, which divides
\* random_u64(limit - 1) by limit, returns a value from 0 up to but not
\* including 1.
C21_BoundedSample ==
    /\ [](lemire.pc = "done" =>
            /\ lemire.s >= 1 => (0 <= lemire.result /\ lemire.result < lemire.s)
            /\ lemire.s = 0 => lemire.result = 0
            /\ lemire.fn = "f64" => (0 <= lemire.f64 /\ lemire.f64 < Pow2(FracBits)))
    /\ [](lemire.pc = "loop" =>
            (lemire.s >= 1 /\ \E xx \in Words : ~(LowWord(xx * lemire.s) < lemire.t)))
    /\ <>(lemire.pc = "done")

\* random_u64(3) rejected its first draw (3 does not divide the word range)
\* and returned the largest value, 2, from the second.
C21_Witness ==
    /\ lemire.pc = "done"
    /\ lemire.fn = "u64"
    /\ lemire.s = 3
    /\ lemire.t > 0
    /\ lemire.l >= lemire.t
    /\ lemire.result = 2

====
